---- MODULE Spec2Model ----
(***************************************************************************)
(* TensorsToSegmentationCalculator                                         *)
(* (mediapipe/calculators/tensor/tensors_to_segmentation_calculator.cc).   *)
(*                                                                         *)
(* The calculator is a state machine: Open loads the options, and every    *)
(* Process invocation validates the TENSORS packet, selects the GPU or the *)
(* CPU converter, constructs it lazily, delegates to Convert and emits the *)
(* mask.  The converters, the shape utilities, the status macros and the   *)
(* packet accessors live outside this file; what they return is an input   *)
(* of the step that calls them.                                            *)
(***************************************************************************)
EXTENDS Integers, Sequences, FiniteSets, TLC

VARIABLES
    build,           \* compile-time switches of the binary and CanUseGpu()
    graph,           \* the node as wired in the graph: options, OUTPUT_SIZE tag
    opened,          \* Open has returned
    options_,        \* TensorsToSegmentationCalculator::options_
    cpu_converter_,  \* std::unique_ptr: 0 is null, k > 0 the k-th CPU converter built
    gpu_converter_,  \* std::unique_ptr: 0 is null, k > 0 the k-th GPU converter built
    aborted,         \* the process died in a fatal check
    timestamp,       \* cc->InputTimestamp() of the current invocation
    pc,              \* "idle", "ready" (inputs settled, Process due), "returned"
    input,           \* the packets of the input streams at the current timestamp
    result,          \* what the Process invocation that just returned did
    calls            \* per variant: converters built, acquisitions, Convert calls, failures

vars == <<build, graph, opened, options_, cpu_converter_, gpu_converter_,
          aborted, timestamp, pc, input, result, calls>>

----------------------------------------------------------------------------
(* Bounds of the model. *)

MaxInvocations == 3
MaxTensors == 2

(* Tensor::ElementType: kFloat32 and one other type. *)
ElementTypes == {"kFloat32", "kUInt8"}

(* Shapes of a tensor: rank 2, rank 3 with 1, 2 and 3 channels, rank 4 with  *)
(* batch 1 and batch 2, rank 5.  Height and width differ.                    *)
Shapes ==
    { <<1, 2>>,
      <<1, 2, 1>>, <<2, 1, 2>>, <<1, 2, 3>>,
      <<1, 2, 1, 1>>, <<1, 1, 2, 2>>, <<2, 1, 2, 1>>,
      <<1, 1, 1, 2, 1>> }

Tensors == [element_type : ElementTypes, dims : Shapes, ready_on_gpu : BOOLEAN]

(* Tensors after the first: malformed (wrong type, unsupported rank), on the *)
(* host or on the device.                                                    *)
LaterTensors ==
    { t \in Tensors : t.element_type = "kUInt8" /\ t.dims = <<1, 1, 1, 2, 1>> }

RECURSIVE BatchesOfLen(_)
BatchesOfLen(n) ==
    IF n = 0 THEN { <<>> }
    ELSE IF n = 1 THEN { <<t>> : t \in Tensors }
    ELSE { Append(b, t) : b \in BatchesOfLen(n - 1), t \in LaterTensors }

(* A packet is <<>> when the stream carries nothing at this timestamp and    *)
(* <<v>> when it carries v.                                                  *)
TensorsPackets ==
    { <<>> } \cup { <<b>> : b \in UNION { BatchesOfLen(n) : n \in 0..MaxTensors } }

(* std::pair<int, int> values of OUTPUT_SIZE: (first, second). *)
OutputSizes == { <<3, 4>>, <<4, 3>> }
OutputSizePackets == { <<>> } \cup { <<s>> : s \in OutputSizes }

Activations == {"NONE", "SIGMOID", "SOFTMAX"}

(* Errors a converter's Convert may return. *)
ConvertErrors == {"Internal", "ResourceExhausted"}
ConvertResults == {"Ok"} \cup ConvertErrors
CreateResults == {"Ok", "Unavailable"}

Variants == {"cpu", "gpu"}

NoCalls ==
    [v \in Variants |-> [built |-> 0, failed |-> FALSE, acquired |-> 0, convert |-> 0,
                         convert_failed |-> FALSE]]
NoInput == [tensors |-> <<>>, output_size |-> <<>>]

----------------------------------------------------------------------------
(* Collaborators outside the file. *)

(* RET_CHECK / RET_CHECK_EQ failure: the status kind of a failed check. *)
RetCheckError == "InvalidArgument"

(* RET_CHECK_FAIL(): the status kind of an unconditional failure. *)
RetCheckFailError == "FailedPrecondition"

(* tensors_to_segmentation_utils::CanUseGpu(). *)
CanUseGpu == build.can_use_gpu

(* tensors_to_segmentation_utils::GetHwcFromDims(dims): StatusOr<(h, w, c)>. *)
GetHwcFromDims(dims) ==
    IF Len(dims) = 3
    THEN [status |-> "Ok", hwc |-> <<dims[1], dims[2], dims[3]>>]
    ELSE IF Len(dims) = 4
    THEN IF dims[1] = 1
         THEN [status |-> "Ok", hwc |-> <<dims[2], dims[3], dims[4]>>]
         ELSE [status |-> "InvalidArgument", hwc |-> <<>>]
    ELSE [status |-> "InvalidArgument", hwc |-> <<>>]

(* Packet::Get<T>() on an empty packet is a fatal check failure: the process *)
(* dies.  On a packet that holds a value it returns the value.               *)
PacketGetAborts(packet) == packet = <<>>

----------------------------------------------------------------------------
(* Process, lines 196-205: GPU only if CanUseGpu() and some tensor of the    *)
(* batch is already on GPU.  The loop scans from the front and breaks at the *)
(* first hit.                                                                *)

RECURSIVE AnyReadyOnGpuFrom(_, _)
AnyReadyOnGpuFrom(input_tensors, i) ==
    IF i > Len(input_tensors) THEN FALSE
    ELSE IF input_tensors[i].ready_on_gpu THEN TRUE
    ELSE AnyReadyOnGpuFrom(input_tensors, i + 1)

UseGpuFirstTensorOnly(input_tensors) ==
    IF CanUseGpu
    THEN Len(input_tensors) > 0 /\ input_tensors[1].ready_on_gpu
    ELSE FALSE

UseGpu(input_tensors) ==
    IF CanUseGpu THEN AnyReadyOnGpuFrom(input_tensors, 1) ELSE FALSE

(* Process, lines 215-225: the switch on options_.activation(). *)
ChannelsOkSoftmaxAsSigmoid(activation, tensor_channels) ==
    CASE activation = "NONE" -> tensor_channels = 1
      [] activation = "SIGMOID" -> tensor_channels = 1
      [] activation = "SOFTMAX" -> tensor_channels = 1

ChannelsOk(activation, tensor_channels) ==
    CASE activation = "NONE" -> tensor_channels = 1
      [] activation = "SIGMOID" -> tensor_channels = 1
      [] activation = "SOFTMAX" -> tensor_channels = 2

(* Process, lines 207-226: the validation block; the status it leaves with. *)
ValidateTensorsEveryTensor(input_tensors) ==
    IF input_tensors = <<>> THEN RetCheckError
    ELSE IF \E i \in DOMAIN input_tensors : input_tensors[i].element_type # "kFloat32"
    THEN RetCheckError
    ELSE IF \E i \in DOMAIN input_tensors :
               GetHwcFromDims(input_tensors[i].dims).status # "Ok"
    THEN RetCheckError
    ELSE LET hwc == GetHwcFromDims(input_tensors[1].dims)
         IN  IF ~ChannelsOk(options_.activation, hwc.hwc[3]) THEN RetCheckError
             ELSE "Ok"

ValidateTensorsChannelsFromHeight(input_tensors) ==
    IF input_tensors = <<>> THEN RetCheckError
    ELSE IF input_tensors[1].element_type # "kFloat32" THEN RetCheckError
    ELSE LET hwc == GetHwcFromDims(input_tensors[1].dims)
         IN  IF hwc.status # "Ok" THEN hwc.status
             ELSE IF ~ChannelsOk(options_.activation, hwc.hwc[1]) THEN RetCheckError
             ELSE "Ok"

ValidateTensorsNoTypeCheck(input_tensors) ==
    IF input_tensors = <<>> THEN RetCheckError
    ELSE LET hwc == GetHwcFromDims(input_tensors[1].dims)
         IN  IF hwc.status # "Ok" THEN hwc.status
             ELSE IF ~ChannelsOk(options_.activation, hwc.hwc[3]) THEN RetCheckError
             ELSE "Ok"

ValidateTensors(input_tensors) ==
    IF input_tensors = <<>> THEN RetCheckError
    ELSE IF input_tensors[1].element_type # "kFloat32" THEN RetCheckError
    ELSE LET hwc == GetHwcFromDims(input_tensors[1].dims)
         IN  IF hwc.status # "Ok" THEN hwc.status
             ELSE IF ~ChannelsOk(options_.activation, hwc.hwc[3]) THEN RetCheckError
             ELSE "Ok"

(* Process, lines 228-237: the output dimensions.  OUTPUT_SIZE is read       *)
(* whenever the tag is wired.                                                *)
OutputDimsSwapped(hwc, size_packet) ==
    IF graph.has_output_size_tag
    THEN IF PacketGetAborts(size_packet)
         THEN [aborted |-> TRUE, read |-> TRUE, width |-> 0, height |-> 0]
         ELSE [aborted |-> FALSE, read |-> TRUE,
               width |-> size_packet[1][2], height |-> size_packet[1][1]]
    ELSE [aborted |-> FALSE, read |-> FALSE, width |-> hwc[1], height |-> hwc[2]]

OutputDims(hwc, size_packet) ==
    IF graph.has_output_size_tag
    THEN IF PacketGetAborts(size_packet)
         THEN [aborted |-> TRUE, read |-> TRUE, width |-> 0, height |-> 0]
         ELSE [aborted |-> FALSE, read |-> TRUE,
               width |-> size_packet[1][1], height |-> size_packet[1][2]]
    ELSE [aborted |-> FALSE, read |-> FALSE, width |-> hwc[2], height |-> hwc[1]]

(* The converter slots (lines 147-148) and the compile-time switch that      *)
(* removes a variant's backend (lines 117, 134, 240, 252).                   *)
Slot(v) == IF v = "gpu" THEN gpu_converter_ ELSE cpu_converter_
CompiledOut(v) == IF v = "gpu" THEN build.disable_gpu ELSE build.disable_opencv

(* InitConverterIfNecessary, lines 118-128 and 135-137: if the slot is null, *)
(* MP_ASSIGN_OR_RETURN it from the factory.  create_result is what the       *)
(* factory returns; a new converter is numbered by the order it was built    *)
(* in.  created lists the factory calls made.                                *)
LazyCreateNoNullCheck(v, create_result) ==
    IF create_result = "Ok"
    THEN [status |-> "Ok", converter |-> calls[v].built + 1, created |-> <<v>>]
    ELSE [status |-> create_result, converter |-> Slot(v), created |-> <<v>>]

LazyCreateNoRetry(v, create_result) ==
    IF Slot(v) = 0 /\ ~calls[v].failed
    THEN IF create_result = "Ok"
         THEN [status |-> "Ok", converter |-> calls[v].built + 1, created |-> <<v>>]
         ELSE [status |-> create_result, converter |-> Slot(v), created |-> <<v>>]
    ELSE [status |-> "Ok", converter |-> Slot(v), created |-> <<>>]

LazyCreate(v, create_result) ==
    IF Slot(v) = 0
    THEN IF create_result = "Ok"
         THEN [status |-> "Ok", converter |-> calls[v].built + 1, created |-> <<v>>]
         ELSE [status |-> create_result, converter |-> Slot(v), created |-> <<v>>]
    ELSE [status |-> "Ok", converter |-> Slot(v), created |-> <<>>]

(* InitConverterIfNecessary, lines 115-144. *)
InitConverterIfNecessaryPoisoned(use_gpu, create_result) ==
    LET v == IF use_gpu THEN "gpu" ELSE "cpu"
        other == IF use_gpu THEN "cpu" ELSE "gpu"
        made == LazyCreate(v, create_result)
    IN  IF CompiledOut(v) \/ calls[other].failed
        THEN [status |-> RetCheckFailError, cpu |-> cpu_converter_,
              gpu |-> gpu_converter_, created |-> <<>>]
        ELSE [status |-> made.status,
              cpu |-> IF use_gpu THEN cpu_converter_ ELSE made.converter,
              gpu |-> IF use_gpu THEN made.converter ELSE gpu_converter_,
              created |-> made.created]

InitConverterIfNecessary(use_gpu, create_result) ==
    LET v == IF use_gpu THEN "gpu" ELSE "cpu"
        made == LazyCreate(v, create_result)
    IN  IF CompiledOut(v)
        THEN [status |-> RetCheckFailError, cpu |-> cpu_converter_,
              gpu |-> gpu_converter_, created |-> <<>>]
        ELSE [status |-> made.status,
              cpu |-> IF use_gpu THEN cpu_converter_ ELSE made.converter,
              gpu |-> IF use_gpu THEN made.converter ELSE gpu_converter_,
              created |-> made.created]

(* What an invocation that returns at once leaves behind.  before is the     *)
(* cache as the invocation found it.                                         *)
Untouched ==
    [status |-> "Ok", aborted |-> FALSE,
     cpu |-> cpu_converter_, gpu |-> gpu_converter_,
     before |-> [cpu |-> cpu_converter_, gpu |-> gpu_converter_],
     validated |-> FALSE, accepted |-> FALSE, use_gpu |-> FALSE,
     dispatched |-> <<>>, size_read |-> FALSE,
     created |-> <<>>, acquired |-> <<>>, converted |-> <<>>, emitted |-> <<>>]

(* Process, lines 243-247 and 255-259: Convert on the converter of the       *)
(* branch; MP_ASSIGN_OR_RETURN the mask and add it to MASK at the input      *)
(* timestamp.  The mask is identified by the Convert call that made it.      *)
ConvertAndEmitDropsConverter(call, input_timestamp, convert_result, sofar) ==
    IF convert_result # "Ok"
    THEN [sofar EXCEPT !.status = convert_result, !.converted = <<call>>,
                       !.cpu = IF call.variant = "cpu" THEN 0 ELSE @,
                       !.gpu = IF call.variant = "gpu" THEN 0 ELSE @]
    ELSE [sofar EXCEPT !.converted = <<call>>,
                       !.emitted = << [mask |-> call,
                                       timestamp |-> input_timestamp] >>]

ConvertAndEmitUnchecked(call, input_timestamp, convert_result, sofar) ==
    [sofar EXCEPT !.status = convert_result, !.converted = <<call>>,
                  !.emitted = << [mask |-> call, timestamp |-> input_timestamp] >>]

ConvertAndEmit(call, input_timestamp, convert_result, sofar) ==
    IF convert_result # "Ok"
    THEN [sofar EXCEPT !.status = convert_result, !.converted = <<call>>]
    ELSE [sofar EXCEPT !.converted = <<call>>,
                       !.emitted = << [mask |-> call,
                                       timestamp |-> input_timestamp] >>]

(* Process, lines 242-247 and 254-259: acquire the converter of the branch,  *)
(* then Convert.  A Convert call is recorded with the converter it was made  *)
(* on, its arguments and what it returned.                                   *)
AcquireAndConvertOnCpu(use_gpu, output_width, output_height, input_timestamp, create_result, convert_result, sofar) ==
    LET variant == IF use_gpu THEN "gpu" ELSE "cpu"
        init == InitConverterIfNecessary(use_gpu, create_result)
        call == [variant |-> "cpu", converter |-> init.cpu,
                 width |-> output_width, height |-> output_height,
                 returned |-> convert_result]
        tried == [sofar EXCEPT !.cpu = init.cpu, !.gpu = init.gpu,
                               !.created = init.created]
    IN  IF init.status # "Ok"
        THEN [tried EXCEPT !.status = init.status]
        ELSE ConvertAndEmit(call, input_timestamp, convert_result,
                            [tried EXCEPT !.acquired = <<variant>>])

AcquireAndConvert(use_gpu, output_width, output_height, input_timestamp, create_result, convert_result, sofar) ==
    LET variant == IF use_gpu THEN "gpu" ELSE "cpu"
        init == InitConverterIfNecessary(use_gpu, create_result)
        converter == IF use_gpu THEN init.gpu ELSE init.cpu
        call == [variant |-> variant, converter |-> converter,
                 width |-> output_width, height |-> output_height,
                 returned |-> convert_result]
        tried == [sofar EXCEPT !.cpu = init.cpu, !.gpu = init.gpu,
                               !.created = init.created]
    IN  IF init.status # "Ok"
        THEN [tried EXCEPT !.status = init.status]
        ELSE ConvertAndEmit(call, input_timestamp, convert_result,
                            [tried EXCEPT !.acquired = <<variant>>])

(* Process, lines 239-263: the branch on use_gpu; a branch whose backend is  *)
(* compiled out is RET_CHECK_FAIL().                                         *)
DispatchSilentWhenCompiledOut(use_gpu, output_width, output_height, input_timestamp, create_result, convert_result, sofar) ==
    LET variant == IF use_gpu THEN "gpu" ELSE "cpu"
        reached == [sofar EXCEPT !.dispatched = <<variant>>]
    IN  IF CompiledOut(variant)
        THEN reached
        ELSE AcquireAndConvert(use_gpu, output_width, output_height,
                               input_timestamp, create_result, convert_result,
                               reached)

Dispatch(use_gpu, output_width, output_height, input_timestamp, create_result, convert_result, sofar) ==
    LET variant == IF use_gpu THEN "gpu" ELSE "cpu"
        reached == [sofar EXCEPT !.dispatched = <<variant>>]
    IN  IF CompiledOut(variant)
        THEN [reached EXCEPT !.status = RetCheckFailError]
        ELSE AcquireAndConvert(use_gpu, output_width, output_height,
                               input_timestamp, create_result, convert_result,
                               reached)

(* Process, lines 193-265: a TENSORS packet is there. *)
ProcessBatchResetOnInvalid(input_tensors, size_packet, input_timestamp, create_result, convert_result) ==
    LET use_gpu == UseGpu(input_tensors)
        valid == ValidateTensors(input_tensors)
        checked == [Untouched EXCEPT !.validated = TRUE, !.use_gpu = use_gpu]
    IN  IF valid # "Ok" THEN [checked EXCEPT !.status = valid, !.cpu = 0, !.gpu = 0]
        ELSE
        LET hwc == GetHwcFromDims(input_tensors[1].dims)
            out == OutputDims(hwc.hwc, size_packet)
            passed == [checked EXCEPT !.accepted = TRUE]
        IN  IF hwc.status # "Ok" THEN [passed EXCEPT !.status = hwc.status]
            ELSE IF out.aborted
            THEN [passed EXCEPT !.aborted = TRUE, !.size_read = TRUE]
            ELSE Dispatch(use_gpu, out.width, out.height, input_timestamp,
                          create_result, convert_result,
                          [passed EXCEPT !.size_read = out.read])

ProcessBatch(input_tensors, size_packet, input_timestamp, create_result, convert_result) ==
    LET use_gpu == UseGpu(input_tensors)
        valid == ValidateTensors(input_tensors)
        checked == [Untouched EXCEPT !.validated = TRUE, !.use_gpu = use_gpu]
    IN  IF valid # "Ok" THEN [checked EXCEPT !.status = valid]
        ELSE
        LET hwc == GetHwcFromDims(input_tensors[1].dims)
            out == OutputDims(hwc.hwc, size_packet)
            passed == [checked EXCEPT !.accepted = TRUE]
        IN  IF hwc.status # "Ok" THEN [passed EXCEPT !.status = hwc.status]
            ELSE IF out.aborted
            THEN [passed EXCEPT !.aborted = TRUE, !.size_read = TRUE]
            ELSE Dispatch(use_gpu, out.width, out.height, input_timestamp,
                          create_result, convert_result,
                          [passed EXCEPT !.size_read = out.read])

(* Process, lines 188-266, as a function of the packets at the input         *)
(* timestamp and of what the collaborators return.  Get on a TENSORS stream  *)
(* that carries nothing would be the same fatal failure as on OUTPUT_SIZE.   *)
ProcessResultNoEmptyCheck(tensors_packet, size_packet, input_timestamp, create_result, convert_result) ==
    IF PacketGetAborts(tensors_packet)
    THEN [Untouched EXCEPT !.aborted = TRUE]
    ELSE ProcessBatch(tensors_packet[1], size_packet, input_timestamp,
                      create_result, convert_result)

ProcessResult(tensors_packet, size_packet, input_timestamp, create_result, convert_result) ==
    IF tensors_packet = <<>>
    THEN Untouched
    ELSE ProcessBatch(tensors_packet[1], size_packet, input_timestamp,
                      create_result, convert_result)

----------------------------------------------------------------------------
(* The state machine. *)

Init ==
    /\ build \in [disable_gpu : BOOLEAN, disable_opencv : BOOLEAN,
                  can_use_gpu : BOOLEAN]
    /\ graph \in [options : [activation : Activations],
                  has_output_size_tag : BOOLEAN]
    /\ opened = FALSE
    /\ options_ = [activation |-> "NONE"]
    /\ cpu_converter_ = 0
    /\ gpu_converter_ = 0
    /\ aborted = FALSE
    /\ timestamp = 0
    /\ pc = "idle"
    /\ input = NoInput
    /\ result = Untouched
    /\ calls = NoCalls

(* LoadOptions, lines 268-274. *)
LoadOptions ==
    options_' = graph.options

(* Open, lines 180-186. *)
OpenEager ==
    /\ ~opened
    /\ LoadOptions
    /\ opened' = TRUE
    /\ cpu_converter_' = IF build.disable_opencv THEN 0 ELSE 1
    /\ UNCHANGED <<build, graph, gpu_converter_, aborted,
                   timestamp, pc, input, result, calls>>

Open ==
    /\ ~opened
    /\ LoadOptions
    /\ opened' = TRUE
    /\ UNCHANGED <<build, graph, cpu_converter_, gpu_converter_, aborted,
                   timestamp, pc, input, result, calls>>

(* The framework settles the input set of the next timestamp: TENSORS, and   *)
(* OUTPUT_SIZE when the contract declares it (GetContract, lines 159-162).   *)
(* Either stream may carry no packet at that timestamp.                      *)
Arrive(tensors_packet, size_packet) ==
    /\ size_packet # <<>> => graph.has_output_size_tag
    /\ input' = [tensors |-> tensors_packet, output_size |-> size_packet]
    /\ timestamp' = timestamp + 1
    /\ pc' = "ready"
    /\ UNCHANGED <<build, graph, opened, options_, cpu_converter_,
                   gpu_converter_, aborted, result, calls>>

(* Process, lines 188-266, on the input set of the current timestamp.        *)
(* create_result and convert_result are what the factory and Convert return  *)
(* when this invocation calls them; one it does not call returns nothing,    *)
(* written as Ok.                                                            *)
ProcessReloadingOptions(create_result, convert_result) ==
    /\ \E res \in { ProcessResult(input.tensors, input.output_size, timestamp,
                                  create_result, convert_result) } :
           /\ create_result # "Ok" => res.created # <<>>
           /\ convert_result # "Ok" => res.converted # <<>>
           /\ cpu_converter_' = res.cpu
           /\ gpu_converter_' = res.gpu
           /\ aborted' = res.aborted
           /\ result' = res
           /\ calls' = [v \in Variants |->
                          [built |-> calls[v].built
                                       + (IF res.created = <<v>> /\ res.acquired = <<v>>
                                          THEN 1 ELSE 0),
                           failed |-> calls[v].failed
                                        \/ (res.created = <<v>> /\ res.acquired # <<v>>),
                           acquired |-> calls[v].acquired
                                          + (IF res.acquired = <<v>> THEN 1 ELSE 0),
                           convert |-> calls[v].convert
                                         + Cardinality({i \in DOMAIN res.converted :
                                                          res.converted[i].variant = v}),
                           convert_failed |-> calls[v].convert_failed
                                                \/ \E i \in DOMAIN res.converted :
                                                      /\ res.converted[i].variant = v
                                                      /\ res.converted[i].returned # "Ok"]]
    /\ pc' = "returned"
    /\ options_' = [activation |-> "NONE"]
    /\ UNCHANGED <<build, graph, opened, timestamp, input>>

Process(create_result, convert_result) ==
    /\ \E res \in { ProcessResult(input.tensors, input.output_size, timestamp,
                                  create_result, convert_result) } :
           /\ create_result # "Ok" => res.created # <<>>
           /\ convert_result # "Ok" => res.converted # <<>>
           /\ cpu_converter_' = res.cpu
           /\ gpu_converter_' = res.gpu
           /\ aborted' = res.aborted
           /\ result' = res
           /\ calls' = [v \in Variants |->
                          [built |-> calls[v].built
                                       + (IF res.created = <<v>> /\ res.acquired = <<v>>
                                          THEN 1 ELSE 0),
                           failed |-> calls[v].failed
                                        \/ (res.created = <<v>> /\ res.acquired # <<v>>),
                           acquired |-> calls[v].acquired
                                          + (IF res.acquired = <<v>> THEN 1 ELSE 0),
                           convert |-> calls[v].convert
                                         + Cardinality({i \in DOMAIN res.converted :
                                                          res.converted[i].variant = v}),
                           convert_failed |-> calls[v].convert_failed
                                                \/ \E i \in DOMAIN res.converted :
                                                      /\ res.converted[i].variant = v
                                                      /\ res.converted[i].returned # "Ok"]]
    /\ pc' = "returned"
    /\ UNCHANGED <<build, graph, opened, options_, timestamp, input>>

(* Process has returned: the framework drops the input set and goes on to    *)
(* the next timestamp.  Invocations of one node never overlap.               *)
Advance ==
    /\ input' = NoInput
    /\ result' = Untouched
    /\ pc' = "idle"
    /\ UNCHANGED <<build, graph, opened, options_, cpu_converter_,
                   gpu_converter_, aborted, timestamp, calls>>

Next ==
    \/ Open
    \/ /\ opened /\ ~aborted /\ pc = "idle" /\ timestamp < MaxInvocations
       /\ \E tensors_packet \in TensorsPackets, size_packet \in OutputSizePackets :
             Arrive(tensors_packet, size_packet)
    \/ /\ pc = "ready"
       /\ \E create_result \in CreateResults, convert_result \in ConvertResults :
             Process(create_result, convert_result)
    \/ /\ pc = "returned" /\ ~aborted
       /\ Advance

Spec == Init /\ [][Next]_vars

----------------------------------------------------------------------------
(* Vocabulary of the properties.  A state with pc = "returned" shows one     *)
(* finished invocation: input is what it was given, result what it did, and  *)
(* the converter slots are as it left them.                                  *)

Returned == pc = "returned"
Present == input.tensors # <<>>
Batch == input.tensors[1]

(* The dimension rule: (H, W, C) or (1, H, W, C). *)
WellFormed(dims) == Len(dims) = 3 \/ (Len(dims) = 4 /\ dims[1] = 1)
HeightOf(dims) == dims[Len(dims) - 2]
WidthOf(dims) == dims[Len(dims) - 1]
ChannelsOf(dims) == dims[Len(dims)]

(* The channel rule: 1 for NONE, 1 for SIGMOID, 2 for SOFTMAX. *)
Accepts(activation, channels) ==
    \/ activation \in {"NONE", "SIGMOID"} /\ channels = 1
    \/ activation = "SOFTMAX" /\ channels = 2

FirstReadable ==
    /\ Present
    /\ Batch # <<>>
    /\ Batch[1].element_type = "kFloat32"
    /\ WellFormed(Batch[1].dims)

ValidBatch ==
    /\ FirstReadable
    /\ Accepts(options_.activation, ChannelsOf(Batch[1].dims))

AnyOnDevice == \E i \in DOMAIN Batch : Batch[i].ready_on_gpu

NothingBuiltOrConverted ==
    /\ result.created = <<>>
    /\ result.converted = <<>>
    /\ result.emitted = <<>>
    /\ cpu_converter_ = result.before.cpu
    /\ gpu_converter_ = result.before.gpu

(* The extraction rule over every shape of the model: (H, W, C) from a       *)
(* well-formed shape, InvalidArgument from any other.                        *)
ExtractionRule ==
    \A dims \in Shapes :
        IF WellFormed(dims)
        THEN GetHwcFromDims(dims) =
               [status |-> "Ok",
                hwc |-> <<HeightOf(dims), WidthOf(dims), ChannelsOf(dims)>>]
        ELSE GetHwcFromDims(dims).status = "InvalidArgument"

Other(v) == IF v = "gpu" THEN "cpu" ELSE "gpu"

LaterOnDevice == \E i \in 2..Len(Batch) : Batch[i].ready_on_gpu
LaterMalformed ==
    \E i \in 2..Len(Batch) :
        \/ Batch[i].element_type # "kFloat32"
        \/ ~WellFormed(Batch[i].dims)

----------------------------------------------------------------------------
(* C1: when N >= 1 invocations have acquired the same variant, that variant  *)
(* has been constructed exactly once, by the first of them, and Convert has  *)
(* been delegated to it exactly N times; no variant is ever built twice, so  *)
(* the calculator never holds more than one instance of it.                  *)
C1_ConstructedOnceConvertedEachTime ==
    \A v \in Variants :
        /\ calls[v].built <= 1
        /\ Slot(v) = calls[v].built
        /\ calls[v].acquired >= 1 =>
              /\ calls[v].built = 1
              /\ calls[v].convert = calls[v].acquired
        /\ (Returned /\ result.created = <<v>> /\ result.acquired = <<v>>) =>
              calls[v].acquired = 1

C1_Witness ==
    /\ Returned
    /\ result.status = "Ok"
    /\ calls["gpu"].acquired = MaxInvocations
    /\ calls["gpu"].convert = MaxInvocations
    /\ calls["gpu"].built = 1
    /\ ~calls["gpu"].failed

(* C2: a first tensor that can be read passes validation exactly when its    *)
(* channel count is 1 under NONE, 1 under SIGMOID, 2 under SOFTMAX; in every *)
(* other case the invocation fails, no converter of either variant is built  *)
(* and Convert is not called, whatever the cache and the backend.            *)
C2_ChannelRule ==
    (Returned /\ FirstReadable) =>
        /\ result.accepted
             <=> Accepts(options_.activation, ChannelsOf(Batch[1].dims))
        /\ ~Accepts(options_.activation, ChannelsOf(Batch[1].dims)) =>
              /\ result.status # "Ok"
              /\ ~result.aborted
              /\ result.dispatched = <<>>
              /\ NothingBuiltOrConverted

C2_Witness ==
    /\ Returned
    /\ FirstReadable
    /\ options_.activation = "SOFTMAX"
    /\ ChannelsOf(Batch[1].dims) = 1
    /\ result.use_gpu
    /\ result.before.cpu = 1
    /\ result.before.gpu = 0
    /\ result.status # "Ok"

(* C3: with a batch present, the backend is GPU exactly when CanUseGpu() and *)
(* some tensor of the batch is on the device, whatever is cached and         *)
(* whatever was selected before; an invocation that reaches a backend        *)
(* reaches that one.                                                         *)
C3_BackendSelection ==
    (Returned /\ Present) =>
        /\ result.use_gpu <=> (build.can_use_gpu /\ AnyOnDevice)
        /\ result.dispatched # <<>> =>
              result.dispatched = << IF build.can_use_gpu /\ AnyOnDevice
                                     THEN "gpu" ELSE "cpu" >>

C3_Witness ==
    /\ Returned
    /\ Present
    /\ Len(Batch) = 2
    /\ ~Batch[1].ready_on_gpu
    /\ Batch[2].ready_on_gpu
    /\ result.before.cpu = 1
    /\ result.before.gpu = 0
    /\ result.dispatched = <<"gpu">>

(* C4: a failed construction fails the invocation and leaves the slot empty; *)
(* an invocation that reaches a variant whose slot is empty calls the        *)
(* factory, also after an earlier failure; once a construction has           *)
(* succeeded the converter is cached and the factory is not called again.    *)
C4_FailedConstructionRetried ==
    \A v \in Variants :
        /\ (Returned /\ result.created = <<v>> /\ result.acquired # <<v>>) =>
              /\ result.status \notin {"Ok"}
              /\ result.converted = <<>>
              /\ result.emitted = <<>>
              /\ Slot(v) = 0
        /\ (Returned /\ result.dispatched = <<v>> /\ ~CompiledOut(v)) =>
              (result.created = <<v>> <=> result.before[v] = 0)
        /\ (Returned /\ result.created = <<v>> /\ result.acquired = <<v>>) =>
              Slot(v) # 0
        /\ (Returned /\ result.before[v] # 0) =>
              /\ result.created # <<v>>
              /\ Slot(v) = result.before[v]

C4_Witness ==
    /\ Returned
    /\ calls["cpu"].failed
    /\ result.before.cpu = 0
    /\ result.created = <<"cpu">>
    /\ result.acquired = <<"cpu">>
    /\ cpu_converter_ = 1

(* C5: with no TENSORS packet, Process returns success, emits nothing, runs  *)
(* no validation, builds no converter, calls no Convert, does not read       *)
(* OUTPUT_SIZE and leaves both slots and the options as they were.           *)
C5_NoBatchNoWork ==
    (Returned /\ ~Present) =>
        /\ result.status = "Ok"
        /\ ~result.aborted
        /\ ~aborted
        /\ ~result.validated
        /\ ~result.size_read
        /\ result.dispatched = <<>>
        /\ result.acquired = <<>>
        /\ NothingBuiltOrConverted
        /\ options_ = graph.options

C5_Witness ==
    /\ Returned
    /\ ~Present
    /\ graph.has_output_size_tag
    /\ input.output_size = <<>>
    /\ cpu_converter_ = 1
    /\ gpu_converter_ = 1

(* C6: an invocation emits a mask exactly when a batch was present and       *)
(* validation, acquisition and Convert all succeeded; it then emits one      *)
(* mask, the one Convert returned, at the input timestamp; an invocation     *)
(* that fails emits nothing.                                                 *)
C6_MaskEmission ==
    Returned =>
        /\ Len(result.emitted) <= 1
        /\ result.emitted # <<>>
             <=> /\ Present
                 /\ result.accepted
                 /\ result.acquired # <<>>
                 /\ result.converted # <<>>
                 /\ result.status = "Ok"
        /\ result.emitted # <<>> =>
              /\ Len(result.converted) = 1
              /\ result.emitted[1].mask = result.converted[1]
              /\ result.emitted[1].timestamp = timestamp
        /\ (result.status # "Ok" \/ result.aborted) => result.emitted = <<>>
        /\ (Present /\ result.status = "Ok" /\ ~result.aborted) =>
              result.emitted # <<>>

C6_Witness ==
    /\ Returned
    /\ timestamp = 2
    /\ Len(result.emitted) = 1
    /\ result.emitted[1].timestamp = 2
    /\ result.emitted[1].mask.variant = "cpu"

(* C7: the (width, height) handed to Convert are the first tensor's (W, H)   *)
(* when no OUTPUT_SIZE value is supplied and the supplied (first, second)    *)
(* when one is, on the GPU and on the CPU path.                              *)
C7_OutputSize ==
    (Returned /\ result.converted # <<>>) =>
        LET call == result.converted[1]
            dims == Batch[1].dims
        IN  IF input.output_size = <<>>
            THEN call.width = WidthOf(dims) /\ call.height = HeightOf(dims)
            ELSE /\ call.width = input.output_size[1][1]
                 /\ call.height = input.output_size[1][2]

C7_Witness ==
    /\ Returned
    /\ result.converted # <<>>
    /\ result.converted[1].variant = "gpu"
    /\ input.output_size = << <<3, 4>> >>
    /\ result.converted[1].width = 3
    /\ result.converted[1].height = 4
    /\ Batch[1].dims = <<2, 1, 2>>

(* C7, the case without OUTPUT_SIZE is reached as well. *)
C7_TensorSizeReached ==
    /\ Returned
    /\ result.converted # <<>>
    /\ result.converted[1].variant = "cpu"
    /\ input.output_size = <<>>
    /\ Batch[1].dims = <<1, 1, 2, 2>>
    /\ result.converted[1].width = 2
    /\ result.converted[1].height = 1

(* C8: when OUTPUT_SIZE is wired but carries no value at this timestamp, the *)
(* calculator does not read it, uses the first tensor's (W, H) and the       *)
(* invocation goes on as usual.                                              *)
C8_AbsentOutputSizeNotRead ==
    (Returned /\ ValidBatch /\ graph.has_output_size_tag
       /\ input.output_size = <<>>) =>
        /\ ~result.size_read
        /\ ~result.aborted
        /\ result.dispatched # <<>>
        /\ result.converted # <<>> =>
              /\ result.converted[1].width = WidthOf(Batch[1].dims)
              /\ result.converted[1].height = HeightOf(Batch[1].dims)

C11_NoPoisoning ==
    \A v \in Variants :
        /\ (Returned /\ result.dispatched = <<v>> /\ result.acquired # <<v>>) =>
              Slot(Other(v)) = result.before[Other(v)]
        /\ (Returned /\ (calls[Other(v)].failed \/ CompiledOut(Other(v)))
               /\ result.dispatched = <<v>> /\ ~CompiledOut(v)) =>
              /\ result.before[v] # 0 =>
                    result.created = <<>> /\ result.acquired = <<v>>
              /\ result.before[v] = 0 => result.created = <<v>>
              /\ result.acquired # <<v>> => result.created = <<v>>
              /\ result.acquired = <<v>> =>
                    /\ Slot(v) # 0
                    /\ result.converted # <<>>
                    /\ result.emitted # <<>> <=> result.status = "Ok"

C11_Witness ==
    /\ Returned
    /\ calls["gpu"].failed
    /\ gpu_converter_ = 0
    /\ result.dispatched = <<"cpu">>
    /\ result.before.cpu = 0
    /\ result.created = <<"cpu">>
    /\ result.acquired = <<"cpu">>
    /\ cpu_converter_ = 1
    /\ result.status = "Ok"
    /\ result.emitted # <<>>

(* C11, the compiled-out case is reached as well: the GPU backend is missing *)
(* and was selected, then the cached CPU converter is reused and succeeds.   *)
C11_CompiledOutReached ==
    /\ Returned
    /\ build.disable_gpu
    /\ build.can_use_gpu
    /\ timestamp = 3
    /\ result.dispatched = <<"cpu">>
    /\ result.before.cpu = 1
    /\ result.created = <<>>
    /\ result.status = "Ok"
    /\ result.emitted # <<>>

(* C12: when Convert returns an error, Process returns that error, emits no  *)
(* mask, has called Convert once and leaves the converter in its slot; a     *)
(* variant whose Convert has failed keeps its converter in every later       *)
(* state, and an invocation that reaches a variant whose slot is filled      *)
(* calls no factory and converts on the converter it found.                  *)
C12_ConvertErrorPassedThrough ==
    /\ (Returned /\ result.converted # <<>>
           /\ result.converted[1].returned # "Ok") =>
          /\ result.status = result.converted[1].returned
          /\ ~result.aborted
          /\ result.emitted = <<>>
          /\ Len(result.converted) = 1
          /\ result.converted[1].converter # 0
          /\ Slot(result.converted[1].variant) = result.converted[1].converter
    /\ \A v \in Variants :
          /\ calls[v].convert_failed => Slot(v) # 0 /\ calls[v].built = 1
          /\ (Returned /\ result.dispatched = <<v>> /\ result.before[v] # 0) =>
                /\ result.created = <<>>
                /\ result.acquired = <<v>>
                /\ Len(result.converted) = 1
                /\ result.converted[1].converter = result.before[v]

C12_Witness ==
    /\ Returned
    /\ calls["gpu"].convert_failed
    /\ calls["gpu"].convert = 2
    /\ calls["gpu"].built = 1
    /\ result.before.gpu = 1
    /\ result.created = <<>>
    /\ result.converted # <<>>
    /\ result.converted[1].variant = "gpu"
    /\ result.converted[1].returned = "Ok"
    /\ result.emitted # <<>>

(* C12, the failing invocation itself: Convert on a cached CPU converter     *)
(* returns ResourceExhausted.                                                *)
C12_FailureReached ==
    /\ Returned
    /\ result.before.cpu = 1
    /\ result.converted # <<>>
    /\ result.converted[1].variant = "cpu"
    /\ result.converted[1].returned = "ResourceExhausted"
    /\ result.status = "ResourceExhausted"
    /\ cpu_converter_ = 1

C13_Rank4Reached ==
    /\ Returned
    /\ Present
    /\ Batch # <<>>
    /\ Batch[1].dims = <<1, 2, 1, 1>>
    /\ result.converted # <<>>
    /\ ~result.size_read
    /\ result.converted[1].width = 1
    /\ result.converted[1].height = 2

(* C14: in every step, a slot that holds a converter holds the same one      *)
(* afterwards, a variant that has been built is not built again and no       *)
(* factory is called for it; an invocation that fails validation leaves both *)
(* slots and the options as they were and calls no factory.                  *)
C14_Step ==
    /\ cpu_converter_ # 0 => cpu_converter_' = cpu_converter_
    /\ gpu_converter_ # 0 => gpu_converter_' = gpu_converter_
    /\ \A v \in Variants :
          /\ calls[v].built # 0 => calls'[v].built = calls[v].built
          /\ (Slot(v) # 0 /\ pc = "ready") => result'.created # <<v>>
    /\ (pc = "ready" /\ result'.validated /\ ~result'.accepted) =>
          /\ cpu_converter_' = cpu_converter_
          /\ gpu_converter_' = gpu_converter_
          /\ options_' = options_
          /\ result'.created = <<>>
          /\ result'.converted = <<>>

C14_CacheStable == [][C14_Step]_vars

C14_Witness ==
    /\ Returned
    /\ timestamp = MaxInvocations
    /\ result.validated
    /\ ~result.accepted
    /\ result.before.cpu = 1
    /\ result.before.gpu = 1
    /\ cpu_converter_ = 1
    /\ gpu_converter_ = 1

(* C14, a cached GPU converter outlives a failed acquisition of the other    *)
(* variant.                                                                  *)
C14_OtherFailureReached ==
    /\ Returned
    /\ result.before.gpu = 1
    /\ result.created = <<"cpu">>
    /\ result.acquired = <<>>
    /\ gpu_converter_ = 1

(* C15: validation reads the first tensor only and residency is scanned over *)
(* the whole batch.  A non-empty batch passes validation exactly when its    *)
(* first tensor is valid, whatever the later tensors are; when CanUseGpu()   *)
(* holds, the first tensor is valid and on the host and some later tensor is *)
(* on the device, the batch passes validation, use_gpu is set and the        *)
(* branch reached is the GPU one.                                            *)
C15_FirstTensorOnly ==
    (Returned /\ Present /\ Batch # <<>>) =>
        /\ result.validated
        /\ result.accepted <=> ValidBatch
        /\ (ValidBatch /\ LaterMalformed) =>
              result.accepted /\ result.status # "InvalidArgument"
        /\ (build.can_use_gpu /\ ValidBatch /\ ~Batch[1].ready_on_gpu
               /\ LaterOnDevice) =>
              /\ result.accepted
              /\ result.use_gpu
              /\ ~result.aborted => result.dispatched = <<"gpu">>
              /\ result.dispatched # <<"cpu">>
              /\ result.created # <<"cpu">>
              /\ \A i \in DOMAIN result.converted :
                    result.converted[i].variant = "gpu"

C15_Witness ==
    /\ Returned
    /\ Present
    /\ build.can_use_gpu
    /\ ValidBatch
    /\ Len(Batch) = 2
    /\ ~Batch[1].ready_on_gpu
    /\ Batch[2].ready_on_gpu
    /\ Batch[2].element_type = "kUInt8"
    /\ Batch[2].dims = <<1, 1, 1, 2, 1>>
    /\ result.accepted
    /\ result.dispatched = <<"gpu">>
    /\ result.emitted # <<>>
    /\ result.emitted[1].mask.variant = "gpu"

(* C15, a malformed later tensor on the host: the batch passes validation    *)
(* and is converted on the CPU.                                              *)
C15_LaterInvalidOnHostReached ==
    /\ Returned
    /\ Present
    /\ ValidBatch
    /\ Len(Batch) = 2
    /\ LaterMalformed
    /\ ~AnyOnDevice
    /\ result.status = "Ok"
    /\ result.emitted # <<>>
    /\ result.emitted[1].mask.variant = "cpu"

(* C16: whenever Process calls Convert, it calls it once, on the converter    *)
(* in the slot of the variant selected by use_gpu in that invocation; the    *)
(* slot is filled at the call, by this invocation's factory call or by an    *)
(* earlier one, and the backend of that variant is compiled in.  Convert is  *)
(* never called on the other variant or on an empty slot.                    *)
C16_ConvertOnSelected ==
    /\ (Returned /\ result.converted # <<>>) =>
          LET call == result.converted[1]
              selected == IF result.use_gpu THEN "gpu" ELSE "cpu"
          IN  /\ Len(result.converted) = 1
              /\ call.variant = selected
              /\ (call.variant = "gpu") <=> (build.can_use_gpu /\ AnyOnDevice)
              /\ result.dispatched = <<selected>>
              /\ result.acquired = <<selected>>
              /\ ~CompiledOut(selected)
              /\ call.converter # 0
              /\ call.converter = Slot(selected)
              /\ IF result.before[selected] # 0
                 THEN call.converter = result.before[selected]
                      /\ result.created = <<>>
                 ELSE result.created = <<selected>>
              /\ Slot(Other(selected)) = result.before[Other(selected)]
    /\ \A v \in Variants : calls[v].convert > 0 => Slot(v) # 0

C16_Witness ==
    /\ Returned
    /\ result.converted # <<>>
    /\ result.use_gpu
    /\ result.converted[1].variant = "gpu"
    /\ result.before.cpu = 1
    /\ result.before.gpu = 0
    /\ result.created = <<"gpu">>
    /\ result.converted[1].converter = 1
    /\ gpu_converter_ = 1

(* C16, the CPU is selected while a GPU converter is cached: Convert is      *)
(* called on the CPU converter.                                              *)
C16_CpuWithGpuCachedReached ==
    /\ Returned
    /\ result.converted # <<>>
    /\ ~result.use_gpu
    /\ result.converted[1].variant = "cpu"
    /\ result.before.gpu = 1
    /\ result.before.cpu = 1
    /\ result.created = <<>>

(* C17: a slot goes from empty to filled only in a Process invocation whose  *)
(* batch was present and passed validation and whose use_gpu selected that   *)
(* variant; a variant's factory and Convert are called only in an invocation *)
(* that reached that variant; Open builds nothing; a filled slot always has  *)
(* an acquisition behind it.                                                 *)
C17_Step ==
    /\ \A v \in Variants :
          /\ (Slot(v) = 0 /\ (IF v = "gpu" THEN gpu_converter_' ELSE cpu_converter_') # 0) =>
                /\ pc = "ready" /\ pc' = "returned"
                /\ input.tensors # <<>>
                /\ result'.validated
                /\ result'.accepted
                /\ result'.use_gpu <=> v = "gpu"
                /\ result'.dispatched = <<v>>
                /\ result'.created = <<v>>
          /\ calls'[v] # calls[v] =>
                /\ pc = "ready"
                /\ input.tensors # <<>>
                /\ result'.accepted
                /\ result'.dispatched = <<v>>
          /\ Slot(v) # 0 => calls[v].acquired >= 1
          /\ (IF v = "gpu" THEN gpu_converter_' ELSE cpu_converter_') # 0 =>
                calls'[v].acquired >= 1
    /\ ~opened =>
          /\ cpu_converter_ = 0 /\ cpu_converter_' = 0
          /\ gpu_converter_ = 0 /\ gpu_converter_' = 0
          /\ calls = NoCalls /\ calls' = NoCalls

C17_Laziness == [][C17_Step]_vars

C17_Witness ==
    /\ Returned
    /\ build.can_use_gpu
    /\ ~build.disable_gpu
    /\ timestamp = MaxInvocations
    /\ calls["cpu"].acquired = MaxInvocations
    /\ cpu_converter_ = 1
    /\ gpu_converter_ = 0
    /\ calls["gpu"] = NoCalls["gpu"]

(* C17, the step that fills a slot: the second invocation is the first to    *)
(* select the GPU and builds its converter.                                  *)
C17_FirstUseReached ==
    /\ Returned
    /\ timestamp = 2
    /\ result.before.gpu = 0
    /\ result.before.cpu = 1
    /\ result.dispatched = <<"gpu">>
    /\ gpu_converter_ = 1
    /\ calls["gpu"].acquired = 1

(* C18: options_ is written only by Open, with the options of the graph     *)
(* node; no Process invocation and no other step changes it, so every        *)
(* invocation of the calculator applies the channel rule of the configured   *)
(* activation.                                                               *)
C18_Step ==
    /\ options_' # options_ => ~opened /\ opened'
    /\ opened' => options_' = graph.options
    /\ graph' = graph
    /\ pc = "ready" =>
          /\ opened
          /\ options_' = options_
          /\ options_' = graph.options
          /\ FirstReadable =>
                (result'.accepted
                   <=> Accepts(graph.options.activation, ChannelsOf(Batch[1].dims)))

C18_OptionsSetAtOpen == [][C18_Step]_vars

C18_Witness ==
    /\ Returned
    /\ timestamp = MaxInvocations
    /\ graph.options.activation = "SOFTMAX"
    /\ options_.activation = "SOFTMAX"
    /\ ValidBatch
    /\ ChannelsOf(Batch[1].dims) = 2
    /\ result.accepted
    /\ calls["cpu"].convert_failed
    /\ calls["gpu"].failed

====
